---- MODULE Spec2Model ----
(***************************************************************************)
(* Model of image_picker.py: the viewer's event loop (run_viewer), the     *)
(* background preload threads (preload_surface), the pick/copy threads     *)
(* (copy_image_async) and the session record (save_state / load_state).    *)
(*                                                                         *)
(* The event loop and each preload thread are sequential processes whose   *)
(* position is part of the state.  The variables index, next_surface,      *)
(* next_index, prev_surface and prev_index are closure cells shared        *)
(* between run_viewer and preload_surface without any lock, so every       *)
(* statement that reads or writes one of them is a step of its own and     *)
(* the steps of different threads interleave freely.                       *)
(***************************************************************************)
EXTENDS Integers, FiniteSets, Bags, TLC

\* ---------------------------------------------------------------- bounds
\* len(images): the catalog scanned for the session.
NumImages == 3
\* Preload threads the user lets pile up before pressing another arrow key.
MaxJobs == 2
\* Copy threads the user lets pile up before pressing Return again.
MaxCopies == 1

\* ------------------------------------------------------------ data model
\* images: List[Path], sorted and without duplicates; an image is named by
\* its position in the list.
Images == 0 .. (NumImages - 1)

\* screen.get_size(): the size of the window as first opened, and the size
\* after the user has resized it (the window is opened RESIZABLE).
ViewportSizes == {"initial", "resized"}

\* None, for the variables holding an index.
NoneIndex == -1

\* None, for the variables holding a surface.
NoneSurface == [img |-> NoneIndex, size |-> "none"]

\* load_surface(images[i], size) when it returns: the surface decoded from
\* image i, scaled to fit size.
load_surface(i, size) == [img |-> i, size |-> size]

VARIABLES
    pc,               \* position of the event-loop thread
    event,            \* the event the for loop is handling
    index,
    needs_redraw,
    current_surface,
    next_surface,
    next_index,
    prev_surface,
    prev_index,
    screen_size,      \* screen.get_size()
    jobs,             \* bag of the preload threads that are alive
    copies,           \* bag of the copy threads that are alive
    output,           \* the images whose file is in output_dir
    saved,            \* the content of shortlist_state.json
    failure,          \* the exception that ended run_viewer, if any
    hit               \* the neighbour buffer and index cached when the
                      \* navigation being handled began

vars == <<pc, event, index, needs_redraw, current_surface, next_surface,
          next_index, prev_surface, prev_index, screen_size, jobs, copies,
          output, saved, failure, hit>>

slots == <<next_surface, next_index, prev_surface, prev_index>>

viewer == <<index, current_surface, next_surface, next_index, prev_surface,
            prev_index>>

Events == {"QUIT", "K_RIGHT", "K_LEFT", "K_RETURN", "VIDEORESIZE"}

\* The process is alive: run_viewer has neither exited nor raised.
Running == pc \notin {"exited", "crashed"}

\* ------------------------------------------------------- preload threads
\* threading.Thread(target=preload_surface, args=(target,)).start()
NewJob(target) ==
    [target |-> target, pc |-> "load", surface |-> NoneSurface, stale |-> FALSE]

StartThread(bag, target) == bag (+) SetToBag({NewJob(target)})

\* index changed: every thread started before is older than the navigation.
Age(bag) ==
    LET old == BagToSet(bag)
        fresh(k) == [k EXCEPT !.stale = FALSE]
        n(j) == IF j \in old THEN bag[j] ELSE 0
    IN  [k \in {[j EXCEPT !.stale = TRUE] : j \in old} |-> n(k) + n(fresh(k))]

\* A preload thread that outlives the process that started it.
AliveAfterExit(j) == BagIn(j, jobs)

\* Thread j runs: the threads are daemon threads, they end with the process.
Alive(j) == Running /\ BagIn(j, jobs)

Move(j, k) == jobs' = (jobs (-) SetToBag({j})) (+) SetToBag({k})

Finish(j) == jobs' = jobs (-) SetToBag({j})

\* ------------------------------------------------------------ start-up
\* shortlist_state.json as save_state writes it (images_root and output_dir
\* are fixed for the session and left out).
Record(i, total) == [current_index |-> i, total_images |-> total]

\* The locals of run_viewer as lines 76-84 set them.
Enter(start_index) ==
    /\ pc' = "top"
    /\ event' = "NOEVENT"
    /\ index' = start_index
    /\ needs_redraw' = TRUE
    /\ current_surface' = NoneSurface
    /\ next_surface' = NoneSurface
    /\ next_index' = NoneIndex
    /\ prev_surface' = NoneSurface
    /\ prev_index' = NoneIndex
    /\ screen_size' = "initial"
    /\ jobs' = EmptyBag
    /\ copies' = EmptyBag
    /\ failure' = "none"
    /\ hit' = NoneSurface

\* prompt_new_operation: a non-empty catalog, the record saved, index 0.
\* prompt_resume_operation: the record of an earlier session, whose catalog
\* had total_images entries, and the catalog scanned afresh.
Init ==
    /\ pc = "top"
    /\ event = "NOEVENT"
    /\ needs_redraw = TRUE
    /\ current_surface = NoneSurface
    /\ next_surface = NoneSurface
    /\ next_index = NoneIndex
    /\ prev_surface = NoneSurface
    /\ prev_index = NoneIndex
    /\ screen_size = "initial"
    /\ jobs = EmptyBag
    /\ copies = EmptyBag
    /\ output = {}
    /\ failure = "none"
    /\ hit = NoneSurface
    /\ \/ /\ NumImages > 0
          /\ saved = Record(0, NumImages)
       \/ \E total \in {NumImages, NumImages + 1} :
            \E i \in 0 .. (total - 1) : saved = Record(i, total)
    /\ index = saved.current_index

\* main() run again after the viewer has ended: option 2, a new operation.
RelaunchNew ==
    /\ ~Running
    /\ NumImages > 0
    /\ saved' = Record(0, NumImages)
    /\ Enter(0)
    /\ UNCHANGED output

\* main() run again after the viewer has ended: option 1, resume.
RelaunchResume ==
    /\ ~Running
    /\ Enter(saved.current_index)
    /\ UNCHANGED <<saved, output>>

\* ----------------------------------------------------------- event loop
\* The neighbours preloaded when the first image has been loaded (143-156).
PreloadNeighbours(bag) ==
    LET withNext == IF index + 1 < NumImages THEN StartThread(bag, index + 1)
                    ELSE bag
    IN  IF index - 1 >= 0 THEN StartThread(withNext, index - 1) ELSE withNext

\* if needs_redraw: load the first image if there is none, preload its
\* neighbours, blit and flip.
Draw ==
    /\ pc = "top"
    /\ needs_redraw
    /\ IF current_surface # NoneSurface
       THEN /\ needs_redraw' = FALSE
            /\ pc' = "poll"
            /\ UNCHANGED <<current_surface, jobs, failure>>
       ELSE IF index \notin Images
       THEN /\ pc' = "crashed"
            /\ failure' = "IndexError"
            /\ UNCHANGED <<current_surface, jobs, needs_redraw>>
       ELSE \/ /\ current_surface' = load_surface(index, screen_size)
               /\ jobs' = PreloadNeighbours(jobs)
               /\ needs_redraw' = FALSE
               /\ pc' = "poll"
               /\ UNCHANGED failure
            \/ /\ pc' = "crashed"
               /\ failure' = "DecodeError"
               /\ UNCHANGED <<current_surface, jobs, needs_redraw>>
    /\ UNCHANGED <<event, index, slots, screen_size, copies, output, saved, hit>>

\* needs_redraw is False: straight to the events.
SkipDraw ==
    /\ pc = "top"
    /\ ~needs_redraw
    /\ pc' = "poll"
    /\ UNCHANGED <<event, index, needs_redraw, current_surface, slots,
                   screen_size, jobs, copies, output, saved, failure, hit>>

\* for event in pygame.event.get(): the next event of the batch.
GetEvent ==
    /\ pc = "poll"
    /\ \E e \in Events :
         /\ e \in {"K_RIGHT", "K_LEFT"} => BagCardinality(jobs) < MaxJobs
         /\ e = "K_RETURN" => BagCardinality(copies) < MaxCopies
         /\ event' = e
    /\ pc' = "dispatch"
    /\ UNCHANGED <<index, needs_redraw, current_surface, slots, screen_size,
                   jobs, copies, output, saved, failure, hit>>

\* The batch is exhausted: clock.tick(60) and the next turn of while True.
EndBatch ==
    /\ pc = "poll"
    /\ pc' = "top"
    /\ UNCHANGED <<event, index, needs_redraw, current_surface, slots,
                   screen_size, jobs, copies, output, saved, failure, hit>>

\* The handler is done: back to the for loop.
Handled ==
    /\ pc' = "poll"
    /\ event' = "NOEVENT"
    /\ hit' = NoneSurface

\* pygame.QUIT, K_ESCAPE, K_q: pygame.quit(); sys.exit(0).
Quit ==
    /\ pc = "dispatch"
    /\ event = "QUIT"
    /\ pc' = "exited"
    /\ event' = "NOEVENT"
    /\ UNCHANGED <<index, needs_redraw, current_surface, slots, screen_size,
                   jobs, copies, output, saved, failure, hit>>

\* The window has a new size; no branch of the handler matches the event.
Resize ==
    /\ pc = "dispatch"
    /\ event = "VIDEORESIZE"
    /\ screen_size' \in ViewportSizes \ {screen_size}
    /\ Handled
    /\ UNCHANGED <<index, needs_redraw, current_surface, slots, jobs, copies,
                   output, saved, failure>>

\* copy_image_async handed the image after the one on display.
copy_image_async_next(bag, src) == bag (+) SetToBag({src + 1})

\* copy_image_async(src, dst_dir): a daemon thread is started that copies
\* src into dst_dir.
copy_image_async(bag, src) == bag (+) SetToBag({src})

\* K_RETURN: copy_image_async(images[index], output_dir).
Pick ==
    /\ pc = "dispatch"
    /\ event = "K_RETURN"
    /\ copies' = copy_image_async(copies, index)
    /\ Handled
    /\ UNCHANGED <<index, needs_redraw, current_surface, slots, screen_size,
                   jobs, output, saved, failure>>

\* copy_image_async.worker: mkdir, shutil.copy2(src, dst_dir / src.name).
CopyDone ==
    /\ Running
    /\ \E src \in BagToSet(copies) :
         /\ copies' = copies (-) SetToBag({src})
         /\ output' = output \cup {src}
    /\ UNCHANGED <<pc, event, index, needs_redraw, current_surface, slots,
                   screen_size, jobs, saved, failure, hit>>

\* copy_image_async.worker raises: the thread ends, nothing is copied.
CopyFail ==
    /\ Running
    /\ \E src \in BagToSet(copies) : copies' = copies (-) SetToBag({src})
    /\ UNCHANGED <<pc, event, index, needs_redraw, current_surface, slots,
                   screen_size, jobs, output, saved, failure, hit>>

\* The guard of K_RIGHT with <= for <: the last image is not a boundary.
CanGoRightOffByOne(i) == i <= NumImages - 1

\* if index < len(images) - 1
CanGoRight(i) == i < NumImages - 1

\* The guard of K_LEFT with >= for >: the first image is not a boundary.
CanGoLeftOffByOne(i) == i >= 0

\* if index > 0
CanGoLeft(i) == i > 0

\* The buffer a slot holds for index i, None when it holds none for i.
Cached(surface, idx, i) ==
    IF surface # NoneSurface /\ idx = i THEN surface ELSE NoneSurface

\* save_state with the number the counter overlay shows, index + 1.
SaveStateOneBased(i) == Record(i + 1, NumImages)

\* save_state({..., "current_index": index, "total_images": len(images)})
SaveState(i) == Record(i, NumImages)

\* K_RIGHT: if index < len(images) - 1: index += 1
KeyRight ==
    /\ pc = "dispatch"
    /\ event = "K_RIGHT"
    /\ IF CanGoRight(index)
       THEN /\ index' = index + 1
            /\ jobs' = Age(jobs)
            /\ hit' = Cached(next_surface, next_index, index + 1)
            /\ pc' = "r_shift_surface"
            /\ UNCHANGED event
       ELSE /\ Handled
            /\ UNCHANGED <<index, jobs>>
    /\ UNCHANGED <<needs_redraw, current_surface, slots, screen_size, copies,
                   output, saved, failure>>

\* prev_surface = current_surface
RightShiftSurface ==
    /\ pc = "r_shift_surface"
    /\ prev_surface' = current_surface
    /\ pc' = "r_shift_index"
    /\ UNCHANGED <<event, index, needs_redraw, current_surface, next_surface,
                   next_index, prev_index, screen_size, jobs, copies, output,
                   saved, failure, hit>>

\* prev_index = index - 1
RightShiftIndex ==
    /\ pc = "r_shift_index"
    /\ prev_index' = index - 1
    /\ pc' = "r_test_surface"
    /\ UNCHANGED <<event, index, needs_redraw, current_surface, next_surface,
                   next_index, prev_surface, screen_size, jobs, copies, output,
                   saved, failure, hit>>

\* if next_surface is not None and ...
RightTestSurface ==
    /\ pc = "r_test_surface"
    /\ pc' = IF next_surface # NoneSurface THEN "r_test_index" ELSE "r_load"
    /\ UNCHANGED <<event, index, needs_redraw, current_surface, slots,
                   screen_size, jobs, copies, output, saved, failure, hit>>

\* ... and next_index == index:
RightTestIndex ==
    /\ pc = "r_test_index"
    /\ pc' = IF next_index = index THEN "r_promote" ELSE "r_load"
    /\ UNCHANGED <<event, index, needs_redraw, current_surface, slots,
                   screen_size, jobs, copies, output, saved, failure, hit>>

\* current_surface = next_surface
RightPromote ==
    /\ pc = "r_promote"
    /\ current_surface' = next_surface
    /\ pc' = "r_clear_surface"
    /\ UNCHANGED <<event, index, needs_redraw, slots, screen_size, jobs,
                   copies, output, saved, failure, hit>>

\* else: current_surface = load_surface(images[index], screen.get_size());
\* an exception of load_surface is caught nowhere and ends run_viewer.
RightLoad ==
    /\ pc = "r_load"
    /\ \/ /\ current_surface' = load_surface(index, screen_size)
          /\ pc' = "r_clear_surface"
          /\ UNCHANGED failure
       \/ /\ pc' = "crashed"
          /\ failure' = "DecodeError"
          /\ UNCHANGED current_surface
    /\ UNCHANGED <<event, index, needs_redraw, slots, screen_size, jobs,
                   copies, output, saved, hit>>

\* next_surface = None
RightClearSurface ==
    /\ pc = "r_clear_surface"
    /\ next_surface' = NoneSurface
    /\ pc' = "r_clear_index"
    /\ UNCHANGED <<event, index, needs_redraw, current_surface, next_index,
                   prev_surface, prev_index, screen_size, jobs, copies, output,
                   saved, failure, hit>>

\* next_index = None
RightClearIndex ==
    /\ pc = "r_clear_index"
    /\ next_index' = NoneIndex
    /\ pc' = "r_preload"
    /\ UNCHANGED <<event, index, needs_redraw, current_surface, next_surface,
                   prev_surface, prev_index, screen_size, jobs, copies, output,
                   saved, failure, hit>>

\* Preload the new next image, needs_redraw = True, save_state(...).
RightPreload ==
    /\ pc = "r_preload"
    /\ jobs' = IF index + 1 < NumImages THEN StartThread(jobs, index + 1)
               ELSE jobs
    /\ needs_redraw' = TRUE
    /\ saved' = SaveState(index)
    /\ Handled
    /\ UNCHANGED <<index, current_surface, slots, screen_size, copies, output,
                   failure>>

\* K_LEFT: if index > 0: index -= 1
KeyLeft ==
    /\ pc = "dispatch"
    /\ event = "K_LEFT"
    /\ IF CanGoLeft(index)
       THEN /\ index' = index - 1
            /\ jobs' = Age(jobs)
            /\ hit' = Cached(prev_surface, prev_index, index - 1)
            /\ pc' = "l_shift_surface"
            /\ UNCHANGED event
       ELSE /\ Handled
            /\ UNCHANGED <<index, jobs>>
    /\ UNCHANGED <<needs_redraw, current_surface, slots, screen_size, copies,
                   output, saved, failure>>

\* next_surface = current_surface
LeftShiftSurface ==
    /\ pc = "l_shift_surface"
    /\ next_surface' = current_surface
    /\ pc' = "l_shift_index"
    /\ UNCHANGED <<event, index, needs_redraw, current_surface, next_index,
                   prev_surface, prev_index, screen_size, jobs, copies, output,
                   saved, failure, hit>>

\* next_index = index + 1
LeftShiftIndex ==
    /\ pc = "l_shift_index"
    /\ next_index' = index + 1
    /\ pc' = "l_test_surface"
    /\ UNCHANGED <<event, index, needs_redraw, current_surface, next_surface,
                   prev_surface, prev_index, screen_size, jobs, copies, output,
                   saved, failure, hit>>

\* if prev_surface is not None and ...
LeftTestSurface ==
    /\ pc = "l_test_surface"
    /\ pc' = IF prev_surface # NoneSurface THEN "l_test_index" ELSE "l_load"
    /\ UNCHANGED <<event, index, needs_redraw, current_surface, slots,
                   screen_size, jobs, copies, output, saved, failure, hit>>

\* ... and prev_index == index:
LeftTestIndex ==
    /\ pc = "l_test_index"
    /\ pc' = IF prev_index = index THEN "l_promote" ELSE "l_load"
    /\ UNCHANGED <<event, index, needs_redraw, current_surface, slots,
                   screen_size, jobs, copies, output, saved, failure, hit>>

\* current_surface = prev_surface
LeftPromote ==
    /\ pc = "l_promote"
    /\ current_surface' = prev_surface
    /\ pc' = "l_clear_surface"
    /\ UNCHANGED <<event, index, needs_redraw, slots, screen_size, jobs,
                   copies, output, saved, failure, hit>>

\* else: current_surface = load_surface(images[index], screen.get_size())
LeftLoad ==
    /\ pc = "l_load"
    /\ \/ /\ current_surface' = load_surface(index, screen_size)
          /\ pc' = "l_clear_surface"
          /\ UNCHANGED failure
       \/ /\ pc' = "crashed"
          /\ failure' = "DecodeError"
          /\ UNCHANGED current_surface
    /\ UNCHANGED <<event, index, needs_redraw, slots, screen_size, jobs,
                   copies, output, saved, hit>>

\* prev_surface = None
LeftClearSurface ==
    /\ pc = "l_clear_surface"
    /\ prev_surface' = NoneSurface
    /\ pc' = "l_clear_index"
    /\ UNCHANGED <<event, index, needs_redraw, current_surface, next_surface,
                   next_index, prev_index, screen_size, jobs, copies, output,
                   saved, failure, hit>>

\* prev_index = None
LeftClearIndex ==
    /\ pc = "l_clear_index"
    /\ prev_index' = NoneIndex
    /\ pc' = "l_preload"
    /\ UNCHANGED <<event, index, needs_redraw, current_surface, next_surface,
                   next_index, prev_surface, screen_size, jobs, copies, output,
                   saved, failure, hit>>

\* Preload the new previous image, needs_redraw = True, save_state(...).
LeftPreload ==
    /\ pc = "l_preload"
    /\ jobs' = IF index - 1 >= 0 THEN StartThread(jobs, index - 1) ELSE jobs
    /\ needs_redraw' = TRUE
    /\ saved' = SaveState(index)
    /\ Handled
    /\ UNCHANGED <<index, current_surface, slots, screen_size, copies, output,
                   failure>>

\* ------------------------------------------- preload_surface, per thread
\* The range check and surface = load_surface(images[target_index], ...);
\* an exception of load_surface is swallowed by except Exception: pass.
JobLoad(j) ==
    /\ Alive(j)
    /\ j.pc = "load"
    /\ IF j.target < 0 \/ j.target >= NumImages
       THEN Finish(j)
       ELSE \/ Move(j, [j EXCEPT !.pc = "test_next",
                                 !.surface = load_surface(j.target, screen_size)])
            \/ Finish(j)
    /\ UNCHANGED <<pc, event, index, needs_redraw, current_surface, slots,
                   screen_size, copies, output, saved, failure, hit>>

\* if target_index == index + 1:
JobTestNext(j) ==
    /\ Alive(j)
    /\ j.pc = "test_next"
    /\ Move(j, [j EXCEPT !.pc = IF j.target = index + 1 THEN "write_next_surface"
                                ELSE "test_prev"])
    /\ UNCHANGED <<pc, event, index, needs_redraw, current_surface, slots,
                   screen_size, copies, output, saved, failure, hit>>

\* next_surface = surface
JobWriteNextSurface(j) ==
    /\ Alive(j)
    /\ j.pc = "write_next_surface"
    /\ next_surface' = j.surface
    /\ Move(j, [j EXCEPT !.pc = "write_next_index"])
    /\ UNCHANGED <<pc, event, index, needs_redraw, current_surface, next_index,
                   prev_surface, prev_index, screen_size, copies, output,
                   saved, failure, hit>>

\* next_index = target_index
JobWriteNextIndex(j) ==
    /\ Alive(j)
    /\ j.pc = "write_next_index"
    /\ next_index' = j.target
    /\ Finish(j)
    /\ UNCHANGED <<pc, event, index, needs_redraw, current_surface,
                   next_surface, prev_surface, prev_index, screen_size, copies,
                   output, saved, failure, hit>>

\* elif target_index == index - 1:
JobTestPrev(j) ==
    /\ Alive(j)
    /\ j.pc = "test_prev"
    /\ IF j.target = index - 1
       THEN Move(j, [j EXCEPT !.pc = "write_prev_surface"])
       ELSE Finish(j)
    /\ UNCHANGED <<pc, event, index, needs_redraw, current_surface, slots,
                   screen_size, copies, output, saved, failure, hit>>

\* prev_surface = surface
JobWritePrevSurface(j) ==
    /\ Alive(j)
    /\ j.pc = "write_prev_surface"
    /\ prev_surface' = j.surface
    /\ Move(j, [j EXCEPT !.pc = "write_prev_index"])
    /\ UNCHANGED <<pc, event, index, needs_redraw, current_surface,
                   next_surface, next_index, prev_index, screen_size, copies,
                   output, saved, failure, hit>>

\* prev_index = target_index
JobWritePrevIndex(j) ==
    /\ Alive(j)
    /\ j.pc = "write_prev_index"
    /\ prev_index' = j.target
    /\ Finish(j)
    /\ UNCHANGED <<pc, event, index, needs_redraw, current_surface,
                   next_surface, next_index, prev_surface, screen_size, copies,
                   output, saved, failure, hit>>

\* One step of preload thread j.
JobStep(j) ==
    \/ JobLoad(j)
    \/ JobTestNext(j)
    \/ JobWriteNextSurface(j)
    \/ JobWriteNextIndex(j)
    \/ JobTestPrev(j)
    \/ JobWritePrevSurface(j)
    \/ JobWritePrevIndex(j)

\* ------------------------------------------------------- specification
Next ==
    \/ Draw
    \/ SkipDraw
    \/ GetEvent
    \/ EndBatch
    \/ Quit
    \/ Resize
    \/ Pick
    \/ CopyDone
    \/ CopyFail
    \/ KeyRight
    \/ RightShiftSurface
    \/ RightShiftIndex
    \/ RightTestSurface
    \/ RightTestIndex
    \/ RightPromote
    \/ RightLoad
    \/ RightClearSurface
    \/ RightClearIndex
    \/ RightPreload
    \/ KeyLeft
    \/ LeftShiftSurface
    \/ LeftShiftIndex
    \/ LeftTestSurface
    \/ LeftTestIndex
    \/ LeftPromote
    \/ LeftLoad
    \/ LeftClearSurface
    \/ LeftClearIndex
    \/ LeftPreload
    \/ \E j \in BagToSet(jobs) : JobLoad(j)
    \/ \E j \in BagToSet(jobs) : JobTestNext(j)
    \/ \E j \in BagToSet(jobs) : JobWriteNextSurface(j)
    \/ \E j \in BagToSet(jobs) : JobWriteNextIndex(j)
    \/ \E j \in BagToSet(jobs) : JobTestPrev(j)
    \/ \E j \in BagToSet(jobs) : JobWritePrevSurface(j)
    \/ \E j \in BagToSet(jobs) : JobWritePrevIndex(j)
    \/ RelaunchNew
    \/ RelaunchResume

Spec == Init /\ [][Next]_vars

\* ---------------------------------------------------------------- claims
\* The event loop is between two events: no handler is running.
Idle == pc \in {"top", "poll"}

\* The event loop takes a step (the preload and copy threads leave pc alone).
ControllerStep == pc' # pc

\* C1: whenever the event loop has finished handling an event and is about
\* to draw, the current buffer is the decode of images[index]; a buffer
\* decoded for another index is never the one displayed.
C1_DisplayedImageCorrect ==
    (pc = "top" /\ needs_redraw /\ current_surface # NoneSurface)
        => current_surface.img = index

\* C2: between navigations the prev slot's index is None or index - 1, the
\* next slot's index is None or index + 1, and a slot whose index is not None
\* holds the decode of exactly that index.
C2_WindowInvariant ==
    Idle =>
        /\ prev_index \in {NoneIndex, index - 1}
        /\ next_index \in {NoneIndex, index + 1}
        /\ prev_index # NoneIndex => prev_surface.img = prev_index
        /\ next_index # NoneIndex => next_surface.img = next_index

\* C3: a step of a preload thread that was started before the latest
\* navigation changes none of index, the current buffer and the two slots.
C3_StaleCompletionDiscarded ==
    [][\A j \in BagToSet(jobs) :
          (j.stale /\ JobStep(j)) => UNCHANGED viewer]_vars

\* C4: a navigation that begins while the neighbour slot holds a buffer for
\* the new index performs no synchronous decode, and the current buffer it
\* ends with is exactly the buffer that was cached.
C4_PromotionOnCacheHit ==
    /\ pc \in {"r_load", "l_load"} => hit = NoneSurface
    /\ (pc \in {"r_clear_surface", "l_clear_surface"} /\ hit # NoneSurface)
           => current_surface = hit

\* The handler of a K_LEFT at the first image, or of a K_RIGHT at the last,
\* is about to run.
AtBoundary ==
    /\ pc = "dispatch"
    /\ \/ event = "K_LEFT" /\ index = 0
       \/ event = "K_RIGHT" /\ index = NumImages - 1

\* C5: a K_LEFT at index 0 and a K_RIGHT at index len - 1 change nothing:
\* not index, the current buffer, the slots or the saved record; no preload
\* thread is started, no image is decoded, and the viewer goes on.
C5_BoundaryNoOp ==
    [][(AtBoundary /\ ControllerStep) =>
          /\ pc' = "poll"
          /\ UNCHANGED <<viewer, saved, jobs, needs_redraw, screen_size,
                         copies, output, failure>>]_vars

\* C5 witness: a K_RIGHT is being handled at the last image while the prev
\* slot is filled and a preload thread is alive.
C5_Witness ==
    /\ pc = "dispatch"
    /\ event = "K_RIGHT"
    /\ index = NumImages - 1
    /\ prev_index = index - 1
    /\ jobs # EmptyBag

\* C6: index changes only by a K_RIGHT below the last image, to index + 1,
\* and by a K_LEFT above the first, to index - 1; such a key always moves
\* it; no other event and no preload or copy thread changes index.
C6_OneImageAtATime ==
    [][/\ (Running /\ index' # index) =>
            /\ pc = "dispatch"
            /\ \/ event = "K_RIGHT" /\ index < NumImages - 1
                                    /\ index' = index + 1
               \/ event = "K_LEFT" /\ index > 0 /\ index' = index - 1
       /\ (pc = "dispatch" /\ event = "K_RIGHT" /\ index < NumImages - 1
            /\ ControllerStep) => index' = index + 1
       /\ (pc = "dispatch" /\ event = "K_LEFT" /\ index > 0
            /\ ControllerStep) => index' = index - 1]_vars

\* C6 witness: a K_LEFT has just moved index from the last image to the one
\* before it.
C6_Witness ==
    /\ pc = "l_shift_surface"
    /\ event = "K_LEFT"
    /\ index = NumImages - 2
    /\ current_surface.img = NumImages - 1

C8_SavedTracksIndex ==
    /\ [](pc \in {"top", "poll", "dispatch"} => saved.current_index = index)
    /\ [][/\ (pc \in {"r_preload", "l_preload"} /\ ControllerStep) =>
               saved' = Record(index', NumImages)
          /\ (~Running /\ ControllerStep) =>
               /\ index' = saved'.current_index
               /\ saved' = saved \/ saved' = Record(0, NumImages)]_vars

\* C8 witness: the viewer is between events after a K_RIGHT to the last
\* image, and the record holds that index and the catalog length.
C8_Witness ==
    /\ pc = "poll"
    /\ needs_redraw
    /\ index = NumImages - 1
    /\ saved = Record(NumImages - 1, NumImages)

\* C9: when a synchronous decode fails, the viewer is still running.
C9_SyncDecodeFailureSurvived ==
    failure = "DecodeError" => Running

\* C10: a K_RETURN starts one copy thread for images[index] and changes
\* nothing else, returning to the event loop at once; a copy thread changes
\* nothing of the viewer or the saved record, and what it adds to the output
\* directory is the image it was started for.
C10_PickFrame ==
    [][/\ (pc = "dispatch" /\ event = "K_RETURN" /\ ControllerStep) =>
            /\ pc' = "poll"
            /\ copies' = copies (+) SetToBag({index})
            /\ UNCHANGED <<viewer, saved, jobs, needs_redraw, screen_size,
                           output, failure>>
       /\ (Running /\ pc # "dispatch" /\ copies' # copies) =>
            /\ UNCHANGED <<pc, viewer, saved, jobs>>
            /\ output' \subseteq output \cup BagToSet(copies)]_vars

\* C10 witness: a navigation is under way while the copy of the image
\* picked before it is still running.
C10_Witness ==
    /\ pc = "r_shift_surface"
    /\ BagIn(index - 1, copies)
    /\ index - 1 \notin output

\* C11: the event loop never puts a buffer into a slot: a step of a handler
\* leaves each slot's buffer as it is or sets it to None, so after a K_RIGHT
\* the prev slot does not hold the outgoing current buffer, after a K_LEFT
\* the next slot does not, and only preload threads fill slots.
C11_OutgoingNotReused ==
    [][ControllerStep =>
          /\ prev_surface' \in {prev_surface, NoneSurface}
          /\ next_surface' \in {next_surface, NoneSurface}]_vars

\* The preload threads alive whose target is image t.
JobsFor(t) ==
    LET js == {j \in BagToSet(jobs) : j.target = t}
    IN  [j \in js |-> jobs[j]]

\* C12: in every state at most one preload thread is alive per target index.
C12_OneJobPerTarget ==
    \A t \in Images : BagCardinality(JobsFor(t)) <= 1

\* The slots and the preload threads alive, as one value.
Pending ==
    [ns |-> next_surface, ni |-> next_index, ps |-> prev_surface,
     pi |-> prev_index, js |-> jobs]

\* The next statement of preload thread j, with its load succeeding, applied
\* to the slots and threads c while index and the window size stay as they
\* are (the statements of JobLoad .. JobWritePrevIndex, as a function).
RunJob(c, j) ==
    LET rest == c.js (-) SetToBag({j})
        at(p) == rest (+) SetToBag({[j EXCEPT !.pc = p]})
    IN  CASE j.pc = "load" ->
               IF j.target < 0 \/ j.target >= NumImages
               THEN [c EXCEPT !.js = rest]
               ELSE [c EXCEPT !.js = rest (+) SetToBag({
                        [j EXCEPT !.pc = "test_next",
                                  !.surface = load_surface(j.target, screen_size)]})]
          [] j.pc = "test_next" ->
               [c EXCEPT !.js = at(IF j.target = index + 1
                                   THEN "write_next_surface" ELSE "test_prev")]
          [] j.pc = "write_next_surface" ->
               [c EXCEPT !.ns = j.surface, !.js = at("write_next_index")]
          [] j.pc = "write_next_index" ->
               [c EXCEPT !.ni = j.target, !.js = rest]
          [] j.pc = "test_prev" ->
               [c EXCEPT !.js = IF j.target = index - 1
                                THEN at("write_prev_surface") ELSE rest]
          [] j.pc = "write_prev_surface" ->
               [c EXCEPT !.ps = j.surface, !.js = at("write_prev_index")]
          [] j.pc = "write_prev_index" ->
               [c EXCEPT !.pi = j.target, !.js = rest]

\* The slots the threads of c can leave behind when all of them have run to
\* their end, over every interleaving of their statements.
RECURSIVE Outcomes(_)
Outcomes(c) ==
    IF c.js = EmptyBag
    THEN {<<c.ns, c.ni, c.ps, c.pi>>}
    ELSE UNION {Outcomes(RunJob(c, j)) : j \in BagToSet(c.js)}

\* C13: between events, the slots that the preload threads in flight leave
\* behind once all of them have completed (no navigation, no resize and no
\* failed decode in between) are the same for every order and interleaving
\* of their statements.
C13_ArrivalOrderIndependent ==
    Idle => Cardinality(Outcomes(Pending)) = 1

\* C14: index, the current buffer and the two slots (buffer and index)
\* change only in steps of the event-loop thread; no preload thread writes
\* any of them.
C14_OnlyControllerMutates ==
    [][viewer' # viewer => ControllerStep]_vars

\* The load_surface of preload thread j raises: the thread ends in its
\* except clause.
JobFails(j) ==
    /\ JobLoad(j)
    /\ j.target \in Images
    /\ Finish(j)

\* C15: when, between events, the decode of a preload thread for a neighbour
\* of index fails, that neighbour's slot is empty afterwards (buffer None,
\* index None), index and the current buffer are unchanged, the viewer goes
\* on, and no thread is started in its place.
C15_BackgroundFailureEmptiesSlot ==
    [][\A j \in BagToSet(jobs) :
          (Idle /\ JobFails(j)) =>
              /\ j.target = index + 1 =>
                    next_surface' = NoneSurface /\ next_index' = NoneIndex
              /\ j.target = index - 1 =>
                    prev_surface' = NoneSurface /\ prev_index' = NoneIndex
              /\ UNCHANGED <<pc, index, current_surface>>
              /\ jobs' = jobs (-) SetToBag({j})]_vars

\* A statement of the K_RIGHT or of the K_LEFT handler.
Navigate ==
    \/ KeyRight \/ RightShiftSurface \/ RightShiftIndex \/ RightTestSurface
    \/ RightTestIndex \/ RightPromote \/ RightLoad \/ RightClearSurface
    \/ RightClearIndex \/ RightPreload
    \/ KeyLeft \/ LeftShiftSurface \/ LeftShiftIndex \/ LeftTestSurface
    \/ LeftTestIndex \/ LeftPromote \/ LeftLoad \/ LeftClearSurface
    \/ LeftClearIndex \/ LeftPreload

\* An arrow key is being handled.
Navigating ==
    /\ event \in {"K_RIGHT", "K_LEFT"}
    /\ pc \notin {"top", "poll", "exited", "crashed"}

\* C16: while preload threads are in flight, the handler of an arrow key can
\* always take its next step (it waits for no thread); a navigation that has
\* begun does not end the viewer; and when the handler has set the current
\* buffer, that buffer is the one for the new index.
C16_NavigationNeverWaits ==
    /\ (Navigating /\ jobs # EmptyBag) => ENABLED Navigate
    /\ pc = "crashed" => event \notin {"K_RIGHT", "K_LEFT"}
    /\ pc \in {"r_clear_surface", "l_clear_surface"} => current_surface.img = index

\* C17: once the viewer has quit, nothing happens in that session any more:
\* no navigation, pick or redraw, and no step of a preload or copy thread,
\* so index, the current buffer, the slots and the saved record stay as they
\* are; the only step left is main() started anew, which begins a session
\* with empty slots, no threads, and the record as saved or written afresh.
C17_QuitTerminal ==
    [][pc = "exited" =>
          /\ pc' = "top"
          /\ needs_redraw'
          /\ current_surface' = NoneSurface
          /\ next_surface' = NoneSurface /\ next_index' = NoneIndex
          /\ prev_surface' = NoneSurface /\ prev_index' = NoneIndex
          /\ jobs' = EmptyBag /\ copies' = EmptyBag
          /\ saved' \in {saved, Record(0, NumImages)}
          /\ index' = saved'.current_index
          /\ UNCHANGED output]_vars

\* C17 witness: the viewer has quit while a preload thread that had decoded
\* its image and passed its test was about to write the next slot, and a
\* copy was still running.
C17_Witness ==
    /\ pc = "exited"
    /\ copies # EmptyBag
    /\ \E j \in BagToSet(jobs) : j.pc = "write_next_surface"

\* ------------------------------------------ one session, fair scheduling
\* A step of the event-loop thread in a session in which the user only
\* navigates and quits: while True never stops of itself.
LiveController ==
    \/ Draw
    \/ SkipDraw
    \/ GetEvent /\ event' \in {"QUIT", "K_RIGHT", "K_LEFT"}
    \/ EndBatch
    \/ Quit
    \/ Navigate

\* A step of a preload thread whose decode succeeds: a started thread runs
\* to its end.
LiveJobs ==
    \E j \in BagToSet(jobs) : JobStep(j) /\ ~JobFails(j)

LiveNext ==
    \/ LiveController
    \/ LiveJobs

\* One session of the viewer, in which the event loop keeps running and
\* every preload thread is scheduled until it ends.
LiveSpec ==
    /\ Init
    /\ [][LiveNext]_vars
    /\ WF_vars(LiveController)
    /\ WF_vars(LiveJobs)

\* Each neighbour of index that is in range has its buffer in its slot.
WindowFull ==
    /\ index + 1 \in Images =>
          next_index = index + 1 /\ next_surface.img = index + 1
    /\ index - 1 \in Images =>
          prev_index = index - 1 /\ prev_surface.img = index - 1

\* C18: if from some point on no arrow key is handled, and every preload
\* thread completes its decode, then from some point on, as long as the
\* viewer runs, each in-range neighbour of index has its slot holding the
\* buffer of exactly that neighbour.
C18_WindowEventuallyFills ==
    <>[](event \notin {"K_RIGHT", "K_LEFT"}) => <>[](Running => WindowFull)

\* C19: while the viewer runs, 0 <= index < len(images).
C19_IndexInRange ==
    Running => index \in Images

====
